---- MODULE Spec2Model ----
(***************************************************************************)
(* Flames CRM API (src/main.py, src/schemas.py): the HTTP handlers over a  *)
(* document store, as a state machine.                                     *)
(*                                                                         *)
(* A JSON value is a record [t, n, s]: t is its type tag, n its number (or *)
(* the counter of an ObjectId), s its string.  A document and a request    *)
(* body are functions from field names to JSON values.  An identifier on   *)
(* the wire is a sequence of characters.  A collection is the sequence of  *)
(* its documents in insertion (natural) order.                             *)
(***************************************************************************)
EXTENDS Integers, Sequences, FiniteSets, TLC

VARIABLES db, store, nextId, cap, last, dash

vars == <<db, store, nextId, cap, last, dash>>

(* ---------------------------------------------------------------- bounds *)

\* Documents one run may insert into an initially empty store.
MaxDocs == 2
\* Leads one run may insert while dashboard requests run (SpecLeads).
MaxLeads == 3
\* Deals one run may insert while dashboard requests run (SpecDeals).
MaxDeals == 2
\* Documents one run may insert on top of a preloaded collection (SpecBulk).
MaxBulkCreates == 1

(* ------------------------------------------------------------- constants *)

\* list_*(..., limit: int = 50)
DefaultLimit == 50
\* dashboard_snapshot: recent activities .limit(10)
RecentLimit == 10
\* round(conversion_rate, 2)
RoundDigits == 2
\* Lead.score / Deal.probability: Field(None, ge=0, le=100)
ScoreMin == 0
ScoreMax == 100
\* ObjectId(id_str): a string of 24 hexadecimal characters
OidLen == 24

(* ----------------------------------------------------------- JSON values *)

NullV == [t |-> "null", n |-> 0, s |-> ""]
IntV(i) == [t |-> "int", n |-> i, s |-> ""]
StrV(x) == [t |-> "str", n |-> 0, s |-> x]
BoolV(b) == [t |-> "bool", n |-> IF b THEN 1 ELSE 0, s |-> ""]
OidV(k) == [t |-> "oid", n |-> k, s |-> ""]

\* dict.get(key, default)
Get(d, key, default) == IF key \in DOMAIN d THEN d[key] ELSE default

\* Python truthiness of an optional query parameter (`if status:`).
Truthy(v) ==
    \/ v.t = "str" /\ v.s # ""
    \/ v.t \in {"int", "bool"} /\ v.n # 0

NoBody == [f \in {} |-> NullV]

(* ------------------------------------------------------------- ObjectId *)

HexLower == <<"0", "1", "2", "3", "4", "5", "6", "7",
              "8", "9", "a", "b", "c", "d", "e", "f">>
HexUpper == <<"0", "1", "2", "3", "4", "5", "6", "7",
              "8", "9", "A", "B", "C", "D", "E", "F">>

RECURSIVE HexOf(_, _)
HexOf(k, len) ==
    IF len = 0 THEN <<>>
    ELSE Append(HexOf(k \div 16, len - 1), HexLower[(k % 16) + 1])

\* str(ObjectId): the identifier rendered on the wire.
ObjectIdStr(k) == HexOf(k, OidLen)

HexDigit(c) == CHOOSE i \in 0..15 : HexLower[i + 1] = c \/ HexUpper[i + 1] = c

IsHex(c) == \E i \in 1..16 : HexLower[i] = c \/ HexUpper[i] = c

RECURSIVE HexValue(_)
HexValue(cs) ==
    IF cs = <<>> THEN 0
    ELSE 16 * HexValue(SubSeq(cs, 1, Len(cs) - 1)) + HexDigit(cs[Len(cs)])

\* bson.ObjectId(id_str) accepts exactly the strings of 24 hex characters.
ObjectIdValid(cs) == Len(cs) = OidLen /\ \A i \in 1..Len(cs) : IsHex(cs[i])

\* A to_object_id that checks the length only.
to_object_id_LengthOnly(id_str) ==
    IF Len(id_str) = OidLen
    THEN [ok |-> TRUE,
          oid |-> IF ObjectIdValid(id_str) THEN OidV(HexValue(id_str)) ELSE OidV(0),
          status |-> 200, detail |-> ""]
    ELSE [ok |-> FALSE, oid |-> NullV, status |-> 400, detail |-> "Invalid id"]

\* to_object_id: the native identifier, or HTTP 400 "Invalid id".
to_object_id(id_str) ==
    IF ObjectIdValid(id_str)
    THEN [ok |-> TRUE, oid |-> OidV(HexValue(id_str)), status |-> 200, detail |-> ""]
    ELSE [ok |-> FALSE, oid |-> NullV, status |-> 400, detail |-> "Invalid id"]

(* ------------------------------------------- entity schemas (schemas.py) *)

\* One field of a pydantic model: its type, whether it must be given, whether
\* None is allowed, its Literal values ({} = any), its ge/le range, its default.
FieldSpec(kind, required, nullable, enum, ranged, lo, hi, dflt) ==
    [kind |-> kind, required |-> required, nullable |-> nullable, enum |-> enum,
     ranged |-> ranged, lo |-> lo, hi |-> hi, dflt |-> dflt]

Required(kind) == FieldSpec(kind, TRUE, FALSE, {}, FALSE, 0, 0, NullV)
Optional(kind) == FieldSpec(kind, FALSE, TRUE, {}, FALSE, 0, 0, NullV)
Defaulted(kind, dflt) == FieldSpec(kind, FALSE, FALSE, {}, FALSE, 0, 0, dflt)
Literal(enum, dflt) == FieldSpec("str", FALSE, FALSE, enum, FALSE, 0, 0, StrV(dflt))
OptionalLiteral(enum) == FieldSpec("str", FALSE, TRUE, enum, FALSE, 0, 0, NullV)
OptionalRange(lo, hi) == FieldSpec("int", FALSE, TRUE, {}, TRUE, lo, hi, NullV)

RelatedTypes == {"lead", "contact", "deal", "account"}

\* A Lead whose score has no ge / le.
LeadUnranged ==
    [f \in {"name", "email", "phone", "status", "source", "owner_id", "score", "notes"} |->
        CASE f = "name" -> Required("str")
          [] f = "email" -> Optional("email")
          [] f = "status" -> Literal({"new", "contacted", "qualified", "lost"}, "new")
          [] f = "score" -> Optional("int")
          [] OTHER -> Optional("str")]

Lead ==
    [f \in {"name", "email", "phone", "status", "source", "owner_id", "score", "notes"} |->
        CASE f = "name" -> Required("str")
          [] f = "email" -> Optional("email")
          [] f = "status" -> Literal({"new", "contacted", "qualified", "lost"}, "new")
          [] f = "score" -> OptionalRange(ScoreMin, ScoreMax)
          [] OTHER -> Optional("str")]

Deal ==
    [f \in {"title", "account_id", "contact_id", "value", "close_date", "stage",
            "probability", "lost_reason", "owner_id"} |->
        CASE f = "title" -> Required("str")
          [] f = "value" -> Defaulted("float", IntV(0))
          [] f = "close_date" -> Optional("datetime")
          [] f = "stage" -> Defaulted("str", StrV("prospecting"))
          [] f = "probability" -> OptionalRange(ScoreMin, ScoreMax)
          [] OTHER -> Optional("str")]

Task ==
    [f \in {"type", "title", "due_date", "priority", "owner_id", "related_type",
            "related_id", "notes", "completed"} |->
        CASE f = "type" -> Literal({"call", "meeting", "follow-up", "email"}, "follow-up")
          [] f = "title" -> Required("str")
          [] f = "due_date" -> Optional("datetime")
          [] f = "priority" -> Literal({"low", "medium", "high"}, "medium")
          [] f = "related_type" -> OptionalLiteral(RelatedTypes)
          [] f = "completed" -> Defaulted("bool", BoolV(FALSE))
          [] OTHER -> Optional("str")]

Activity ==
    [f \in {"subject", "type", "user_id", "related_type", "related_id", "details"} |->
        CASE f = "subject" -> Required("str")
          [] f = "type" -> Literal({"note", "call", "email", "meeting", "status-change"}, "note")
          [] f = "related_type" -> OptionalLiteral(RelatedTypes)
          [] OTHER -> Optional("str")]

Collections == {"lead", "deal", "task", "activity"}

Schema(coll) ==
    CASE coll = "lead" -> Lead
      [] coll = "deal" -> Deal
      [] coll = "task" -> Task
      [] coll = "activity" -> Activity

\* The strings of the inputs that EmailStr and datetime parsing accept.
WellFormedEmails == {"ann@example.com"}
WellFormedDates == {"2026-01-01T00:00:00"}

\* A type check that ignores ge / le.
TypeOkUnranged(fs, v) ==
    CASE fs.kind = "str" -> v.t = "str" /\ (fs.enum = {} \/ v.s \in fs.enum)
      [] fs.kind = "email" -> v.t = "str" /\ v.s \in WellFormedEmails
      [] fs.kind = "datetime" -> v.t = "str" /\ v.s \in WellFormedDates
      [] fs.kind = "bool" -> v.t = "bool"
      [] fs.kind = "float" -> v.t = "int"
      [] fs.kind = "int" -> v.t = "int"

\* A given, non-null value against the field's type and constraints.
TypeOk(fs, v) ==
    CASE fs.kind = "str" -> v.t = "str" /\ (fs.enum = {} \/ v.s \in fs.enum)
      [] fs.kind = "email" -> v.t = "str" /\ v.s \in WellFormedEmails
      [] fs.kind = "datetime" -> v.t = "str" /\ v.s \in WellFormedDates
      [] fs.kind = "bool" -> v.t = "bool"
      [] fs.kind = "float" -> v.t = "int"
      [] fs.kind = "int" -> v.t = "int" /\ (fs.ranged => fs.lo <= v.n /\ v.n <= fs.hi)

FieldOk(fs, payload, f) ==
    IF f \notin DOMAIN payload THEN ~fs.required
    ELSE IF payload[f] = NullV THEN fs.nullable
    ELSE TypeOk(fs, payload[f])

\* pydantic validation of a request body against the entity's model, and
\* model_dump(): every declared field, defaults filled in, extras dropped.
Validate(coll, payload) ==
    LET sch == Schema(coll)
    IN  [ok |-> \A f \in DOMAIN sch : FieldOk(sch[f], payload, f),
         doc |-> [f \in DOMAIN sch |-> Get(payload, f, sch[f].dflt)]]

(* ------------------------------------------------------ document store *)

EmptyStore == [c \in Collections |-> <<>>]

FirstN(s, k) == SubSeq(s, 1, IF Len(s) < k THEN Len(s) ELSE k)

\* The pairs <<pattern, text>> of the inputs for which the case-insensitive
\* search {"$regex": pattern, "$options": "i"} finds pattern in text.
RegexHits == {<<"ann", "Ann">>, <<"ann", "ann@example.com">>}

\* A query: field equalities, and the free-text search q over qfields.
Query(eq, q, qfields) == [eq |-> eq, q |-> q, qfields |-> qfields]

Matches(d, query) ==
    /\ \A f \in DOMAIN query.eq : f \in DOMAIN d /\ d[f] = query.eq[f]
    /\ \/ query.qfields = {}
       \/ \E f \in query.qfields :
             f \in DOMAIN d /\ d[f].t = "str" /\ <<query.q, d[f].s>> \in RegexHits

\* collection.find(query): the matching documents in natural order.
Find(docs, query) == LET Test(d) == Matches(d, query) IN SelectSeq(docs, Test)

\* collection.count_documents(query)
CountDocuments(docs, query) == Len(Find(docs, query))

\* A document as it goes on the wire: its identifier rendered as a string.
Rendered(d) ==
    [f \in DOMAIN d |-> IF f = "_id" THEN ObjectIdStr(d[f].n) ELSE d[f]]

\* database.create_document: dump the entity, give it a new identifier,
\* insert it; the identifier is returned as a string.
Inserted(doc, k) ==
    [f \in DOMAIN doc \cup {"_id"} |-> IF f = "_id" THEN OidV(k) ELSE doc[f]]

create_document(docs, doc, k) ==
    [docs |-> Append(docs, Inserted(doc, k)), id |-> ObjectIdStr(k)]

\* database.get_documents: up to `limit` matching documents.
get_documents(docs, query, limit) ==
    LET found == FirstN(Find(docs, query), limit)
    IN  [i \in 1..Len(found) |-> Rendered(found[i])]

\* A replacement of the document by the map (no "$set").
SetFieldsReplace(d, data) ==
    [f \in {"_id"} \cup DOMAIN data |-> IF f \in DOMAIN data THEN data[f] ELSE d[f]]

\* {"$set": data} applied to one document.
SetFields(d, data) ==
    [f \in DOMAIN d \cup DOMAIN data |-> IF f \in DOMAIN data THEN data[f] ELSE d[f]]

\* An update_one with upsert=True: with no match the map is inserted under
\* the identifier.
update_one_Upsert(docs, oid, data) ==
    LET hits == {i \in 1..Len(docs) : docs[i]["_id"] = oid}
    IN  IF hits = {}
        THEN [matched_count |-> 0, error |-> FALSE,
              docs |-> Append(docs, SetFields([f \in {"_id"} |-> oid], data))]
        ELSE LET i == CHOOSE j \in hits : \A h \in hits : j <= h
             IN  IF "_id" \in DOMAIN data /\ data["_id"] # docs[i]["_id"]
                 THEN [matched_count |-> 1, error |-> TRUE, docs |-> docs]
                 ELSE [matched_count |-> 1, error |-> FALSE,
                       docs |-> [docs EXCEPT ![i] = SetFields(@, data)]]

\* collection.update_one({"_id": oid}, {"$set": data}): the first document
\* with that identifier is overlaid; _id is immutable (a write error); with
\* no match nothing is written (no upsert).
update_one(docs, oid, data) ==
    LET hits == {i \in 1..Len(docs) : docs[i]["_id"] = oid}
    IN  IF hits = {} THEN [matched_count |-> 0, error |-> FALSE, docs |-> docs]
        ELSE LET i == CHOOSE j \in hits : \A h \in hits : j <= h
             IN  IF "_id" \in DOMAIN data /\ data["_id"] # docs[i]["_id"]
                 THEN [matched_count |-> 1, error |-> TRUE, docs |-> docs]
                 ELSE [matched_count |-> 1, error |-> FALSE,
                       docs |-> [docs EXCEPT ![i] = SetFields(@, data)]]

(* --------------------------------------------------- requests, responses *)

NoLimit == NullV
NoQuery == [f \in {} |-> NullV]
NoId == <<>>
NoCreate == [coll |-> "", rid |-> <<>>]
NoCards == [totalLeads |-> 0, totalDeals |-> 0, revenue |-> 0, conversionRate |-> 0]

\* The HTTP exchange begun last: the request (op, coll, id, data, query,
\* limit) and, once it has completed (status # 0; every handler but the
\* dashboard completes in the step it begins), the response (status, detail,
\* and the body: rid = the "_id" a
\* create returns, docs = what a list returns, updated = an update's
\* {"updated": true}, cards / pipeline / recentActivities = the dashboard).
\* Kept with it for the checks: `after`, the identifier returned by the
\* exchange completed just before a list when that was a create, and
\* lead_written / deal_created, whether a write fell between the dashboard's
\* queries (see NoteWrite).
Exchange(op, coll, id, data, query, limit, status, detail, rid, docs, after) ==
    [op |-> op, coll |-> coll, id |-> id, data |-> data, query |-> query,
     limit |-> limit, status |-> status, detail |-> detail, rid |-> rid,
     docs |-> docs, updated |-> FALSE, after |-> after,
     cards |-> NoCards, pipeline |-> {}, recentActivities |-> <<>>,
     lead_written |-> FALSE, deal_created |-> FALSE]

NoExchange ==
    Exchange("none", "", NoId, NoBody, NoQuery, NoLimit, 0, "", <<>>, <<>>, NoCreate)

Failure(op, coll, id, data, query, limit, status, detail) ==
    Exchange(op, coll, id, data, query, limit, status, detail, <<>>, <<>>, NoCreate)

EntityName(coll) ==
    CASE coll = "lead" -> "Lead"
      [] coll = "deal" -> "Deal"
      [] coll = "task" -> "Task"
      [] coll = "activity" -> "Activity"

\* dashboard_snapshot's position (pc names the query it runs next) and its
\* locals; lead_written: a lead was written after count("lead") and before
\* the count of qualified leads; deal_created: a deal was created after
\* count("deal") and before the aggregation.
DashIdle ==
    [pc |-> "idle", total_leads |-> 0, total_deals |-> 0, total_revenue |-> 0,
     qualified |-> 0, stages |-> {}, lead_written |-> FALSE, deal_created |-> FALSE]

NoteWrite(coll, kind) ==
    [dash EXCEPT
       !.lead_written = @ \/ (coll = "lead" /\ dash.pc \in {"count_deals", "revenue", "qualified"}),
       !.deal_created = @ \/ (coll = "deal" /\ kind = "create"
                                /\ dash.pc \in {"revenue", "qualified", "stages"})]

(* --------------------------------------------------------------- create *)

\* The body of create_lead, create_deal, create_task and create_activity:
\* FastAPI validates the body (422), then create_document inserts it.
Create(coll, payload) ==
    LET v == Validate(coll, payload)
        r == create_document(store[coll], v.doc, nextId)
    IN  IF ~v.ok
        THEN /\ last' = Failure("create", coll, NoId, payload, NoQuery, NoLimit,
                                422, "validation error")
             /\ UNCHANGED <<db, store, nextId, cap, dash>>
        ELSE IF ~db
        THEN /\ last' = Failure("create", coll, NoId, payload, NoQuery, NoLimit,
                                500, "Internal Server Error")
             /\ UNCHANGED <<db, store, nextId, cap, dash>>
        ELSE /\ nextId <= cap
             /\ store' = [store EXCEPT ![coll] = r.docs]
             /\ nextId' = nextId + 1
             /\ last' = Exchange("create", coll, NoId, payload, NoQuery, NoLimit,
                                 200, "", r.id, <<>>, NoCreate)
             /\ dash' = NoteWrite(coll, "create")
             /\ UNCHANGED <<db, cap>>

(* ----------------------------------------------------------------- list *)

\* The query a list handler builds from its parameters (`if status:` ...).
BuildQuery(coll, params) ==
    LET given(f) == f \in DOMAIN params /\ Truthy(params[f])
        eqfields ==
            CASE coll = "lead" -> {"status"}
              [] coll = "deal" -> {"stage"}
              [] coll = "task" -> {"owner_id"}
              [] coll = "activity" -> {"related_type", "related_id"}
        qfields ==
            CASE coll = "lead" -> {"name", "email", "phone"}
              [] coll = "deal" -> {"title"}
              [] OTHER -> {}
    IN  Query([f \in {g \in eqfields : given(g)} |-> params[f]],
              IF given("q") THEN params["q"].s ELSE "",
              IF given("q") THEN qfields ELSE {})

\* A list whose default limit is one short.
ListOffByOne(coll, params, limit) ==
    LET lim == IF limit = NoLimit THEN DefaultLimit - 1 ELSE limit.n
        after == IF last.op = "create" /\ last.status = 200
                 THEN [coll |-> last.coll, rid |-> last.rid] ELSE NoCreate
    IN  /\ last' = IF ~db
                   THEN Failure("list", coll, NoId, NoBody, params, limit,
                                500, "Internal Server Error")
                   ELSE Exchange("list", coll, NoId, NoBody, params, limit, 200, "",
                                 <<>>, get_documents(store[coll], BuildQuery(coll, params), lim),
                                 after)
        /\ UNCHANGED <<db, store, nextId, cap, dash>>

\* The body of list_leads, list_deals, list_tasks and list_activities.
List(coll, params, limit) ==
    LET lim == IF limit = NoLimit THEN DefaultLimit ELSE limit.n
        after == IF last.op = "create" /\ last.status = 200
                 THEN [coll |-> last.coll, rid |-> last.rid] ELSE NoCreate
    IN  /\ last' = IF ~db
                   THEN Failure("list", coll, NoId, NoBody, params, limit,
                                500, "Internal Server Error")
                   ELSE Exchange("list", coll, NoId, NoBody, params, limit, 200, "",
                                 <<>>, get_documents(store[coll], BuildQuery(coll, params), lim),
                                 after)
        /\ UNCHANGED <<db, store, nextId, cap, dash>>

(* --------------------------------------------------------------- update *)

\* An update that does not look at matched_count.
UpdateUnchecked(coll, id_str, data) ==
    LET parsed == to_object_id(id_str)
        res == update_one(store[coll], parsed.oid, data)
        fail(status, detail) ==
            /\ last' = Failure("update", coll, id_str, data, NoQuery, NoLimit, status, detail)
            /\ UNCHANGED <<db, store, nextId, cap, dash>>
        written(status, detail) ==
            /\ store' = [store EXCEPT ![coll] = res.docs]
            /\ last' = Failure("update", coll, id_str, data, NoQuery, NoLimit, status, detail)
            /\ UNCHANGED <<db, nextId, cap, dash>>
    IN  IF ~db THEN fail(500, "Database not configured")
        ELSE IF ~parsed.ok THEN fail(parsed.status, parsed.detail)
        ELSE IF res.error THEN written(500, "Internal Server Error")
        ELSE /\ store' = [store EXCEPT ![coll] = res.docs]
             /\ last' = [Exchange("update", coll, id_str, data, NoQuery, NoLimit,
                                  200, "", <<>>, <<>>, NoCreate) EXCEPT !.updated = TRUE]
             /\ dash' = NoteWrite(coll, "update")
             /\ UNCHANGED <<db, nextId, cap>>

\* The body of update_lead, update_deal and update_task: whatever update_one
\* wrote stays written when the handler then raises.
Update(coll, id_str, data) ==
    LET parsed == to_object_id(id_str)
        res == update_one(store[coll], parsed.oid, data)
        fail(status, detail) ==
            /\ last' = Failure("update", coll, id_str, data, NoQuery, NoLimit, status, detail)
            /\ UNCHANGED <<db, store, nextId, cap, dash>>
        written(status, detail) ==
            /\ store' = [store EXCEPT ![coll] = res.docs]
            /\ last' = Failure("update", coll, id_str, data, NoQuery, NoLimit, status, detail)
            /\ UNCHANGED <<db, nextId, cap, dash>>
    IN  IF ~db THEN fail(500, "Database not configured")
        ELSE IF ~parsed.ok THEN fail(parsed.status, parsed.detail)
        ELSE IF res.error THEN written(500, "Internal Server Error")
        ELSE IF res.matched_count = 0 THEN written(404, EntityName(coll) \o " not found")
        ELSE /\ store' = [store EXCEPT ![coll] = res.docs]
             /\ last' = [Exchange("update", coll, id_str, data, NoQuery, NoLimit,
                                  200, "", <<>>, <<>>, NoCreate) EXCEPT !.updated = TRUE]
             /\ dash' = NoteWrite(coll, "update")
             /\ UNCHANGED <<db, nextId, cap>>

(* ------------------------------------------------------------- handlers *)

\* POST /api/leads, /api/deals, /api/tasks, /api/activities
create_lead(bodies) == \E payload \in bodies : Create("lead", payload)
create_deal(bodies) == \E payload \in bodies : Create("deal", payload)
create_task(bodies) == \E payload \in bodies : Create("task", payload)
create_activity(bodies) == \E payload \in bodies : Create("activity", payload)

Params2(f, v, g, w) == [x \in {f, g} |-> IF x = f THEN v ELSE w]

\* GET /api/leads?status=&q=&limit=
list_leads(statuses, qs, limits) ==
    \E status \in statuses, q \in qs, limit \in limits :
        List("lead", Params2("status", status, "q", q), limit)

\* GET /api/deals?stage=&q=&limit=
list_deals(stages, qs, limits) ==
    \E stage \in stages, q \in qs, limit \in limits :
        List("deal", Params2("stage", stage, "q", q), limit)

\* GET /api/tasks?owner_id=&due=&limit=
list_tasks(owners, limits) ==
    \E owner_id \in owners, limit \in limits :
        List("task", Params2("owner_id", owner_id, "due", NullV), limit)

\* GET /api/activities?related_type=&related_id=&limit=
list_activities(types, limits) ==
    \E related_type \in types, limit \in limits :
        List("activity", Params2("related_type", related_type, "related_id", NullV), limit)

\* PATCH /api/leads/{id}, /api/deals/{id}, /api/tasks/{id}
update_lead(ids, bodies) == \E id \in ids, data \in bodies : Update("lead", id, data)
update_deal(ids, bodies) == \E id \in ids, data \in bodies : Update("deal", id, data)
update_task(ids, bodies) == \E id \in ids, data \in bodies : Update("task", id, data)

Static(op, detail) ==
    /\ last' = Failure(op, "", NoId, NoBody, NoQuery, NoLimit, 200, detail)
    /\ UNCHANGED <<db, store, nextId, cap, dash>>

\* GET /
read_root == Static("root", "CRM Backend Running")

\* GET /schema
get_schema == Static("schema", "collections")

\* GET /test
test_database ==
    Static("test", IF db THEN "Connected & Working" ELSE "Not Available")

(* ------------------------------------------------------------ dashboard *)

WonStages == {"won", "closed-won"}

\* A find over {"stage": "won"} alone.
FindWonOnly(docs) ==
    LET Test(d) == "stage" \in DOMAIN d /\ d["stage"] = StrV("won")
    IN  SelectSeq(docs, Test)

\* db["deal"].find({"stage": {"$in": ["won", "closed-won"]}})
FindWon(docs) ==
    LET Test(d) == "stage" \in DOMAIN d /\ d["stage"].t = "str" /\ d["stage"].s \in WonStages
    IN  SelectSeq(docs, Test)

\* What Python's + accepts next to an int.
IsNumber(v) == v.t \in {"int", "bool"}

RECURSIVE SumValues(_)
SumValues(vals) ==
    IF vals = <<>> THEN 0 ELSE vals[1].n + SumValues(Tail(vals))

\* sum([d.get("value", 0) for d in ...]): a TypeError on a non-number.
TotalRevenue(docs) ==
    LET won == FindWon(docs)
        vals == [i \in 1..Len(won) |-> Get(won[i], "value", IntV(0))]
    IN  [ok |-> \A i \in 1..Len(vals) : IsNumber(vals[i]), sum |-> SumValues(vals)]

\* A group stage that takes 1 for each stage instead of summing 1.
GroupByStageFlat(docs) ==
    LET key(d) == Get(d, "stage", NullV)
    IN  {[stage |-> k, count |-> 1] : k \in {key(docs[i]) : i \in 1..Len(docs)}}

\* The $group / $project pipeline: one {stage, count} per distinct stage.
GroupByStage(docs) ==
    LET key(d) == Get(d, "stage", NullV)
    IN  {[stage |-> k, count |-> Cardinality({i \in 1..Len(docs) : key(docs[i]) = k})] :
            k \in {key(docs[i]) : i \in 1..Len(docs)}}

\* find({}, {"subject": 1, "type": 1, "created_at": 1}).sort("created_at", -1)
\* .limit(10): no stored document carries created_at, so the sort keeps the
\* natural order.
RecentActivities(docs) ==
    LET first == FirstN(docs, RecentLimit)
        keep == {"_id", "subject", "type", "created_at"}
    IN  [i \in 1..Len(first) |-> [f \in DOMAIN first[i] \cap keep |-> first[i][f]]]

RECURSIVE Pow10(_)
Pow10(k) == IF k = 0 THEN 1 ELSE 10 * Pow10(k - 1)

\* num/den cut off instead of rounded.
RoundDown(num, den) == num \div den

\* num/den rounded to the nearest integer, ties to even.
RoundHalfEven(num, den) ==
    LET quo == num \div den
        rem == num % den
    IN  IF 2 * rem < den THEN quo
        ELSE IF 2 * rem > den THEN quo + 1
        ELSE IF quo % 2 = 0 THEN quo ELSE quo + 1

\* round((qualified / total_leads * 100) if total_leads else 0, 2), as a
\* number of hundredths (66.67 is 6667).
ConversionRate(qualified, total_leads) ==
    IF total_leads # 0
    THEN RoundHalfEven(qualified * 100 * Pow10(RoundDigits), total_leads)
    ELSE 0

DashboardPending ==
    Failure("dashboard", "", NoId, NoBody, NoQuery, NoLimit, 0, "")

DashboardFailure ==
    Failure("dashboard", "", NoId, NoBody, NoQuery, NoLimit, 500, "Internal Server Error")

\* GET /api/dashboard, up to total_leads = count("lead").
dashboard_count_leads ==
    /\ dash.pc = "idle"
    /\ IF ~db
       THEN /\ last' = [DashboardFailure EXCEPT !.detail = "Database not configured"]
            /\ dash' = dash
       ELSE /\ dash' = [DashIdle EXCEPT
                          !.pc = "count_deals",
                          !.total_leads = CountDocuments(store["lead"], Query(NoBody, "", {}))]
            /\ last' = DashboardPending
    /\ UNCHANGED <<db, store, nextId, cap>>

\* total_deals = count("deal")
dashboard_count_deals ==
    /\ dash.pc = "count_deals"
    /\ dash' = [dash EXCEPT !.pc = "revenue",
                            !.total_deals = CountDocuments(store["deal"], Query(NoBody, "", {}))]
    /\ UNCHANGED <<db, store, nextId, cap, last>>

\* total_revenue = sum(...)
dashboard_revenue ==
    /\ dash.pc = "revenue"
    /\ LET r == TotalRevenue(store["deal"])
       IN  IF r.ok
           THEN /\ dash' = [dash EXCEPT !.pc = "qualified", !.total_revenue = r.sum]
                /\ last' = last
           ELSE /\ dash' = DashIdle
                /\ last' = DashboardFailure
    /\ UNCHANGED <<db, store, nextId, cap>>

\* qualified = count("lead", {"status": "qualified"})
dashboard_qualified ==
    /\ dash.pc = "qualified"
    /\ dash' = [dash EXCEPT !.pc = "stages",
                            !.qualified = CountDocuments(store["lead"],
                                Query([f \in {"status"} |-> StrV("qualified")], "", {}))]
    /\ UNCHANGED <<db, store, nextId, cap, last>>

\* stages = list(db["deal"].aggregate(...))
dashboard_stages ==
    /\ dash.pc = "stages"
    /\ dash' = [dash EXCEPT !.pc = "activities", !.stages = GroupByStage(store["deal"])]
    /\ UNCHANGED <<db, store, nextId, cap, last>>

\* recent_activities = ...; return {"cards": ..., "pipeline": ..., ...}
dashboard_return ==
    /\ dash.pc = "activities"
    /\ last' = [Exchange("dashboard", "", NoId, NoBody, NoQuery, NoLimit, 200, "",
                         <<>>, <<>>, NoCreate) EXCEPT
                  !.cards = [totalLeads |-> dash.total_leads,
                             totalDeals |-> dash.total_deals,
                             revenue |-> dash.total_revenue,
                             conversionRate |-> ConversionRate(dash.qualified, dash.total_leads)],
                  !.pipeline = dash.stages,
                  !.recentActivities = RecentActivities(store["activity"]),
                  !.lead_written = dash.lead_written,
                  !.deal_created = dash.deal_created]
    /\ dash' = DashIdle
    /\ UNCHANGED <<db, store, nextId, cap>>

dashboard_snapshot ==
    \/ dashboard_count_leads
    \/ dashboard_count_deals
    \/ dashboard_revenue
    \/ dashboard_qualified
    \/ dashboard_stages
    \/ dashboard_return

(* --------------------------------------------------------------- inputs *)

Body1(f, v) == [x \in {f} |-> v]
Body2(f, v, g, w) == [x \in {f, g} |-> IF x = f THEN v ELSE w]
Body3(f, v, g, w, h, u) == [x \in {f, g, h} |-> IF x = f THEN v ELSE IF x = g THEN w ELSE u]

\* One valid body per entity.
ValidBody(coll) ==
    CASE coll = "lead" -> Body1("name", StrV("Ann"))
      [] coll = "deal" -> Body1("title", StrV("Renewal"))
      [] coll = "task" -> Body1("title", StrV("Call Ann"))
      [] coll = "activity" -> Body1("subject", StrV("Intro call"))

\* A valid body and one that fails validation, per entity.
LeadInputs == {ValidBody("lead"), Body2("name", StrV("Ann"), "status", StrV("won"))}
DealInputs ==
    {Body2("title", StrV("Renewal"), "stage", StrV("won")),
     Body2("title", StrV("Renewal"), "probability", IntV(150))}
TaskInputs == {ValidBody("task"), NoBody}
ActivityInputs == {ValidBody("activity"), NoBody}

\* Lead bodies around the bounds of score, and one with no name.
ScoreInputs ==
    {ValidBody("lead"),
     Body2("name", StrV("Ann"), "score", IntV(ScoreMin)),
     Body2("name", StrV("Ann"), "score", IntV(ScoreMax)),
     Body2("name", StrV("Ann"), "score", IntV(ScoreMin - 1)),
     Body2("name", StrV("Ann"), "score", IntV(ScoreMax + 1)),
     Body2("name", StrV("Ann"), "score", IntV(150)),
     Body1("score", IntV(ScoreMax))}

\* Update bodies: free-form maps, also ones the schema would reject, and one
\* that names the identifier.
LeadPatches ==
    {Body1("status", StrV("qualified")), Body1("score", IntV(150)), Body1("_id", StrV("x"))}
DealPatches == {Body1("value", StrV("n/a"))}
TaskPatches == {Body1("completed", BoolV(TRUE))}

\* Path identifiers: those a run can issue, a well-formed one (in upper case)
\* that is never issued, and malformed ones (too short, a character that is
\* no hex digit).
IssuedIds(k) == {ObjectIdStr(i) : i \in 1..k}
UnissuedIds == {[ObjectIdStr(0) EXCEPT ![OidLen] = "A"]}
MalformedIds == {<<"x">>, [ObjectIdStr(0) EXCEPT ![OidLen] = "g"]}
PathIds == IssuedIds(MaxDocs) \cup UnissuedIds \cup MalformedIds
SomeIds == IssuedIds(MaxDocs) \cup {[ObjectIdStr(0) EXCEPT ![OidLen] = "g"]}

\* Dashboard runs: leads an update qualifies; deals created in a won stage,
\* updates that move them between stages.
DashLeadPatches == {Body1("status", StrV("qualified"))}
DashDealInputs ==
    {Body3("title", StrV("Renewal"), "stage", StrV("closed-won"), "value", IntV(50))}
DashDealPatches ==
    {Body2("stage", StrV("won"), "value", IntV(100)), Body1("stage", StrV("prospecting"))}

(* -------------------------------------------------------- specification *)

\* The process starts with the store configured (db) or not, the store empty
\* and no request served; `limit` bounds the identifiers a run issues.
InitWith(configured, limit) ==
    /\ db \in configured
    /\ store = EmptyStore
    /\ nextId = 1
    /\ cap = limit
    /\ last = NoExchange
    /\ dash = DashIdle

Init == InitWith(BOOLEAN, MaxDocs)

\* No dashboard request is in flight.
Idle == dash.pc = "idle"

\* Requests to every endpoint, served one at a time.
Next ==
    \/ Idle /\ read_root
    \/ Idle /\ get_schema
    \/ Idle /\ test_database
    \/ Idle /\ create_lead(LeadInputs)
    \/ Idle /\ list_leads({NullV, StrV("qualified")}, {NullV, StrV("ann")}, {NoLimit})
    \/ Idle /\ update_lead(SomeIds, DashLeadPatches)
    \/ Idle /\ create_deal(DealInputs)
    \/ Idle /\ list_deals({NullV, StrV("won")}, {NullV}, {NoLimit, IntV(1)})
    \/ Idle /\ update_deal(SomeIds, DealPatches)
    \/ Idle /\ create_task(TaskInputs)
    \/ Idle /\ list_tasks({NullV}, {NoLimit})
    \/ Idle /\ update_task(SomeIds, TaskPatches)
    \/ Idle /\ create_activity(ActivityInputs)
    \/ Idle /\ list_activities({NullV}, {NoLimit})
    \/ dashboard_snapshot

Spec == Init /\ [][Next]_vars

\* Update requests over the documents that creates have stored.
NextUpdates ==
    \/ create_lead({ValidBody("lead")})
    \/ update_lead(PathIds, LeadPatches)
    \/ create_deal({ValidBody("deal")})
    \/ update_deal(PathIds, DealPatches)
    \/ create_task({ValidBody("task")})
    \/ update_task(PathIds, TaskPatches)

SpecUpdates == Init /\ [][NextUpdates]_vars

\* Lead creates around the bounds of score, and lead updates.
NextScores ==
    \/ create_lead(ScoreInputs)
    \/ update_lead(PathIds, LeadPatches)

SpecScores == Init /\ [][NextScores]_vars

\* Dashboard requests with the lead writes of other requests interleaved
\* between their queries.
InitLeads == InitWith({TRUE}, MaxLeads)

NextLeads ==
    \/ create_lead({ValidBody("lead")})
    \/ update_lead(IssuedIds(MaxLeads), DashLeadPatches)
    \/ dashboard_snapshot

SpecLeads == InitLeads /\ [][NextLeads]_vars

\* Dashboard requests with the deal writes of other requests interleaved
\* between their queries.
InitDeals == InitWith({TRUE}, MaxDeals)

NextDeals ==
    \/ create_deal(DashDealInputs)
    \/ update_deal(IssuedIds(MaxDeals), DashDealPatches)
    \/ dashboard_snapshot

SpecDeals == InitDeals /\ [][NextDeals]_vars

\* The collection `coll` after k creates into an empty store.
Preloaded(coll, k) ==
    [i \in 1..k |-> Inserted(Validate(coll, ValidBody(coll)).doc, i)]

\* Around the default limit of a list.
PreloadSizes == {0, DefaultLimit - 1, DefaultLimit, DefaultLimit + 1}

\* Creates and lists over a store that earlier creates have filled.
InitBulk ==
    /\ db = TRUE
    /\ \E coll \in Collections, k \in PreloadSizes :
          /\ store = [EmptyStore EXCEPT ![coll] = Preloaded(coll, k)]
          /\ nextId = k + 1
          /\ cap = k + MaxBulkCreates
    /\ last = NoExchange
    /\ dash = DashIdle

NextBulk ==
    \/ create_lead({ValidBody("lead")})
    \/ list_leads({NullV}, {NullV}, {NoLimit, IntV(1)})
    \/ create_deal({ValidBody("deal")})
    \/ list_deals({NullV}, {NullV}, {NoLimit, IntV(1)})
    \/ create_task({ValidBody("task")})
    \/ list_tasks({NullV}, {NoLimit, IntV(1)})
    \/ create_activity({ValidBody("activity")})
    \/ list_activities({NullV}, {NoLimit, IntV(1)})

SpecBulk == InitBulk /\ [][NextBulk]_vars

(* =============================================================== claims *)

Abs(x) == IF x < 0 THEN 0 - x ELSE x

RECURSIVE SumOver(_, _)
SumOver(S, f) ==
    IF S = {} THEN 0
    ELSE LET x == CHOOSE y \in S : TRUE IN f[x] + SumOver(S \ {x}, f)

\* The identifiers of a collection, as rendered on the wire.
WireIds(docs) == {ObjectIdStr(docs[i]["_id"].n) : i \in 1..Len(docs)}

\* The documents, over all collections, that carry the wire identifier rid.
Carriers(rid) ==
    {<<c, i>> \in Collections \X (1..(nextId - 1)) :
        i <= Len(store[c]) /\ ObjectIdStr(store[c][i]["_id"].n) = rid}

\* A list request with no filter.
Unfiltered(x) == \A f \in DOMAIN x.query : x.query[f] = NullV

\* The list in `last` directly follows a create into the same collection.
ListAfterCreate ==
    /\ last.op = "list" /\ last.status = 200
    /\ Unfiltered(last) /\ last.limit = NoLimit
    /\ last.after.coll = last.coll

ListedIds == {last.docs[i]["_id"] : i \in 1..Len(last.docs)}

\* A create with valid fields returned an identifier that exactly one stored
\* document carries.
CreateReturnsFreshId ==
    (last.op = "create" /\ Validate(last.coll, last.data).ok)
        => /\ last.status = 200
           /\ Carriers(last.rid) = {<<last.coll, Len(store[last.coll])>>}

\* C1 as claimed: a valid create returns a new identifier, and a list with no
\* filter and no limit right after it contains that identifier, however many
\* documents the collection holds.
C1_AsClaimed ==
    /\ CreateReturnsFreshId
    /\ ListAfterCreate => last.after.rid \in ListedIds

\* C1, amended: with a store configured, a valid create returns a new
\* identifier, and a list with no filter and no limit right after it contains
\* that identifier provided the collection then holds at most 50 documents
\* (it held fewer than 50 before the create).
C1_CreateThenList ==
    /\ CreateReturnsFreshId
    /\ (ListAfterCreate /\ Len(store[last.coll]) <= 50) => last.after.rid \in ListedIds

C1_Witness ==
    /\ ListAfterCreate
    /\ Len(store[last.coll]) = 50
    /\ Len(last.docs) = 50
    /\ last.after.rid \in ListedIds

\* The step is an update request with the malformed identifier in last'.
MalformedUpdate == last'.op = "update" /\ ~ObjectIdValid(last'.id)

\* C2 as claimed: an update with a malformed identifier fails with 400
\* "Invalid id", also when no store is configured.
C2_AsClaimed ==
    (last.op = "update" /\ ~ObjectIdValid(last.id))
        => last.status = 400 /\ last.detail = "Invalid id"

\* C2, amended: an update with a malformed identifier modifies no document,
\* whatever the payload; it fails with 400 "Invalid id" when a store is
\* configured, and with 500 "Database not configured" when none is.
C2_InvalidId ==
    [][MalformedUpdate =>
          /\ store' = store
          /\ db => last'.status = 400 /\ last'.detail = "Invalid id"
          /\ ~db => last'.status = 500 /\ last'.detail = "Database not configured"]_vars

C2_Witness ==
    /\ last.op = "update" /\ ~ObjectIdValid(last.id)
    /\ last.status = 400
    /\ Len(last.id) = 24
    /\ Len(store[last.coll]) > 0

\* The step is an update request whose well-formed identifier no document of
\* its collection carries.
UnmatchedUpdate ==
    /\ last'.op = "update" /\ db
    /\ ObjectIdValid(last'.id)
    /\ \A i \in 1..Len(store[last'.coll]) :
          store[last'.coll][i]["_id"].n # HexValue(last'.id)

\* C3: with a store configured, an update with a well-formed identifier that
\* no document of the collection carries fails with 404 and leaves every
\* collection as it was.
C3_NotFound ==
    [][UnmatchedUpdate => last'.status = 404 /\ store' = store]_vars

\* The identifier is well formed and belongs to a document of another
\* collection.
C3_Witness ==
    /\ last.op = "update" /\ last.status = 404
    /\ Len(store[last.coll]) > 0
    /\ \E c \in Collections \ {last.coll} : last.id \in WireIds(store[c])

\* The score of a lead body is absent (or null), or an integer in [0,100].
ScoreInRange(d) ==
    \/ "score" \notin DOMAIN d
    \/ d["score"] = NullV
    \/ d["score"].t = "int" /\ 0 <= d["score"].n /\ d["score"].n <= 100

Without(d, f) == [x \in DOMAIN d \ {f} |-> d[x]]

\* The step is a create-lead request whose fields other than score are valid.
LeadCreate ==
    /\ last'.op = "create" /\ last'.coll = "lead" /\ last' # last
    /\ db
    /\ Validate("lead", Without(last'.data, "score")).ok

\* C4: with a store configured and the other fields valid, creating a lead
\* stores it exactly when its score is absent or an integer in [0,100];
\* otherwise the request fails validation and no document is added.
C4_ScoreValidated ==
    [][LeadCreate =>
          IF ScoreInRange(last'.data)
          THEN /\ last'.status = 200
               /\ Len(store'["lead"]) = Len(store["lead"]) + 1
               /\ store'["lead"][Len(store'["lead"])]["score"]
                     = Get(last'.data, "score", NullV)
          ELSE /\ last'.status = 422
               /\ store' = store]_vars

\* Leads with score 0 and score 100 are stored.
C4_Witness ==
    /\ last.op = "create" /\ last.coll = "lead" /\ last.status = 200
    /\ Get(last.data, "score", NullV) = IntV(100)
    /\ \E i \in 1..Len(store["lead"]) : store["lead"][i]["score"] = IntV(0)

\* The lead documents of s whose score is neither absent nor in [0,100].
OutOfRange(s) == {i \in 1..Len(s["lead"]) : ~ScoreInRange(s["lead"][i])}

\* C5 as claimed: every stored lead has a score that is absent or in [0,100].
C5_AsClaimed == OutOfRange(store) = {}

\* C5, amended: a create request never stores a lead whose score is out of
\* [0,100]; a score out of range enters the collection only through a
\* successful update whose field map names score (updates are not validated).
C5_ScoreBounded ==
    [][(OutOfRange(store') \ OutOfRange(store) # {})
          => /\ last'.op = "update" /\ last'.coll = "lead" /\ last'.status = 200
             /\ "score" \in DOMAIN last'.data]_vars

C5_Witness ==
    /\ last.op = "create" /\ last.coll = "lead" /\ last.status = 200
    /\ Len(store["lead"]) = 2
    /\ OutOfRange(store) = {}
    /\ \E i \in 1..2 : store["lead"][i]["score"] = IntV(100)

\* The value of a deal as the revenue counts it: 0 when it has none.
ValueOf(d) == IF "value" \in DOMAIN d THEN d["value"].n ELSE 0

\* The sum of the values of the deals whose stage is "won" or "closed-won".
WonRevenue(deals) ==
    LET won == {i \in 1..Len(deals) :
                   "stage" \in DOMAIN deals[i]
                   /\ (deals[i]["stage"] = StrV("won") \/ deals[i]["stage"] = StrV("closed-won"))}
    IN  SumOver(won, [i \in won |-> ValueOf(deals[i])])

\* The steps of a dashboard request: its revenue query succeeds; it returns.
RevenueStep == dash.pc = "revenue" /\ dash'.pc = "qualified"
ReturnStep == dash.pc = "activities" /\ dash'.pc = "idle"

\* C6: the revenue a dashboard request reads is the sum of value over the
\* deals then stored whose stage is "won" or "closed-won" (0 for a deal with
\* no value, 0 when no deal is won), whatever creates and updates came
\* before, and that sum is the cards.revenue it returns.
C6_Revenue ==
    [][/\ RevenueStep => dash'.total_revenue = WonRevenue(store["deal"])
       /\ ReturnStep => last'.status = 200 /\ last'.cards.revenue = dash.total_revenue]_vars

\* One deal moved into "won" by an update counts, one moved out of
\* "closed-won" no longer does.
C6_Witness ==
    /\ last.op = "dashboard" /\ last.status = 200
    /\ last.cards.revenue = 100
    /\ last.cards.totalDeals = 2
    /\ Len(store["deal"]) = 2
    /\ store["deal"][1]["stage"] = StrV("won") /\ store["deal"][1]["value"] = IntV(100)
    /\ store["deal"][2]["stage"] = StrV("prospecting") /\ store["deal"][2]["value"] = IntV(50)

\* q/t x 100 to 2 decimal places, in hundredths: the integer nearest to
\* 10000 q / t (the even one of two equally near).
NearestHundredths(q, t) ==
    CHOOSE h \in 0..(10000 * q) :
        /\ 2 * Abs(h * t - 10000 * q) <= t
        /\ 2 * Abs(h * t - 10000 * q) = t => h % 2 = 0

Qualified(leads) ==
    {i \in 1..Len(leads) : "status" \in DOMAIN leads[i] /\ leads[i]["status"] = StrV("qualified")}

LeadCountStep == dash.pc = "idle" /\ dash'.pc = "count_deals"
QualifiedStep == dash.pc = "qualified" /\ dash'.pc = "stages"

\* C7: the dashboard counts the leads and the qualified leads then stored,
\* and returns as cards.conversionRate qualified / total x 100 rounded to 2
\* decimal places, 0 when it counted no lead; with no lead written between
\* the two counts the rate lies in [0,100].
C7_ConversionRate ==
    [][/\ LeadCountStep => dash'.total_leads = Len(store["lead"])
       /\ QualifiedStep => dash'.qualified = Cardinality(Qualified(store["lead"]))
       /\ ReturnStep =>
             /\ last'.cards.totalLeads = dash.total_leads
             /\ last'.cards.conversionRate =
                   IF dash.total_leads = 0 THEN 0
                   ELSE NearestHundredths(dash.qualified, dash.total_leads)
             /\ ~last'.lead_written =>
                   0 <= last'.cards.conversionRate /\ last'.cards.conversionRate <= 10000]_vars

\* Two of three leads qualified: 66.67.
C7_Witness ==
    /\ last.op = "dashboard" /\ last.status = 200
    /\ ~last.lead_written
    /\ last.cards.totalLeads = 3
    /\ last.cards.conversionRate = 6667

\* The identifiers of each collection, as stored.
StoredIds(s, c) == {s[c][i]["_id"] : i \in 1..Len(s[c])}

\* The step completes a request that is no successful create or update.
ReadOrFailure ==
    /\ last' # last
    /\ last'.op \notin {"create", "update"} \/ last'.status # 200

\* C8: no request removes an identifier from a collection; only a successful
\* create adds one (the one it returns, to its own collection); list,
\* dashboard, schema, test and failed requests leave every collection as it
\* was.
C8_NoDelete ==
    [][/\ \A c \in Collections :
             /\ StoredIds(store, c) \subseteq StoredIds(store', c)
             /\ Len(store[c]) <= Len(store'[c])
             /\ StoredIds(store', c) # StoredIds(store, c) =>
                   /\ last'.op = "create" /\ last'.coll = c /\ last'.status = 200
                   /\ Len(store'[c]) = Len(store[c]) + 1
                   /\ last'.rid \notin WireIds(store[c])
                   /\ WireIds(store'[c]) = WireIds(store[c]) \cup {last'.rid}
       /\ ReadOrFailure => store' = store
       /\ dash'.pc # dash.pc => store' = store]_vars

\* After creates, an update and a dashboard request both documents remain.
C8_Witness ==
    /\ last.op = "dashboard" /\ last.status = 200
    /\ Len(store["lead"]) = 1 /\ Len(store["deal"]) = 1
    /\ store["lead"][1]["status"] = StrV("qualified")

\* The step is a successful update of document i of its collection.
UpdatedAt(i) ==
    /\ last'.op = "update" /\ last'.status = 200
    /\ i \in 1..Len(store[last'.coll])
    /\ ObjectIdStr(store[last'.coll][i]["_id"].n) = last'.id

\* Two maps that name disjoint fields take effect together in either order.
Commute(d, m1, m2) ==
    DOMAIN m1 \cap DOMAIN m2 = {} =>
        /\ SetFields(SetFields(d, m1), m2) = SetFields(SetFields(d, m2), m1)
        /\ \A k \in DOMAIN m1 : SetFields(SetFields(d, m1), m2)[k] = m1[k]
        /\ \A k \in DOMAIN m2 : SetFields(SetFields(d, m1), m2)[k] = m2[k]

\* C9: a successful update returns {updated: true}; its target then has every
\* field of the map at the map's value (validated or not), its other fields
\* and its identifier as before, and every other document of every
\* collection is unchanged; maps over disjoint fields commute.
C9_Overlay ==
    [][(last'.op = "update" /\ last'.status = 200) =>
          /\ last'.updated
          /\ \E i \in 1..Len(store[last'.coll]) : UpdatedAt(i)
          /\ \A i \in 1..Len(store[last'.coll]) : UpdatedAt(i) =>
                LET c == last'.coll
                    old == store[c][i]
                    new == store'[c][i]
                    m == last'.data
                IN  /\ Len(store'[c]) = Len(store[c])
                    /\ DOMAIN new = DOMAIN old \cup DOMAIN m
                    /\ \A k \in DOMAIN m : new[k] = m[k]
                    /\ \A k \in DOMAIN old \ DOMAIN m : new[k] = old[k]
                    /\ new["_id"] = old["_id"]
                    /\ \A j \in 1..Len(store[c]) : j # i => store'[c][j] = store[c][j]
                    /\ \A c2 \in Collections \ {c} : store'[c2] = store[c2]
                    /\ \A m1 \in LeadPatches, m2 \in LeadPatches : Commute(old, m1, m2)]_vars

\* A lead overlaid by two updates over disjoint fields, the second with a
\* score the schema rejects, next to an untouched document.
C9_Witness ==
    /\ last.op = "update" /\ last.status = 200 /\ last.coll = "lead"
    /\ last.data = Body1("score", IntV(150))
    /\ Len(store["lead"]) = 2
    /\ \E i \in 1..2 :
          /\ ObjectIdStr(store["lead"][i]["_id"].n) = last.id
          /\ store["lead"][i]["score"] = IntV(150)
          /\ store["lead"][i]["status"] = StrV("qualified")
          /\ store["lead"][i]["name"] = StrV("Ann")

PipelineSum(pipeline) == SumOver(pipeline, [e \in pipeline |-> e.count])

\* C10: in every dashboard response each stage has at most one pipeline
\* entry and the pipeline counts sum to at least cards.totalDeals, to
\* exactly cards.totalDeals when no deal was created between the count and
\* the aggregation (stage updates in between do not matter).
C10_Pipeline ==
    (last.op = "dashboard" /\ last.status = 200) =>
        /\ \A e1 \in last.pipeline, e2 \in last.pipeline : e1.stage = e2.stage => e1 = e2
        /\ PipelineSum(last.pipeline) >= last.cards.totalDeals
        /\ ~last.deal_created => PipelineSum(last.pipeline) = last.cards.totalDeals

\* A deal created between the count and the aggregation: two deals of one
\* stage in the pipeline, one deal counted.
C10_Witness ==
    /\ last.op = "dashboard" /\ last.status = 200
    /\ last.deal_created
    /\ last.cards.totalDeals = 1
    /\ last.pipeline = {[stage |-> StrV("closed-won"), count |-> 2]}

====
